---- MODULE Spec2Model ----
(***************************************************************************)
(* Model of the GitHub Copilot metrics dashboard (src/app.py).             *)
(*                                                                         *)
(* Python dicts are functions whose DOMAIN is the set of keys present      *)
(* (the empty dict is <<>>), lists are sequences, calendar dates are       *)
(* small integers.  A DataFrame is a record                                *)
(*     [status, columns, rows]                                             *)
(* status "ok" for a returned table, or the name of the exception the      *)
(* call raised (no table then).  columns is the set of column labels,      *)
(* rows the sequence of rows, each a function on columns.  The order of    *)
(* the columns is not modelled.                                            *)
(***************************************************************************)
EXTENDS Integers, Sequences, FiniteSets, TLC

VARIABLES
    data,            \* the parsed document handed to the two transformations
    df,              \* flatten_data(data)
    language_df,     \* extract_language_acceptance_data(data)
    analysis,        \* the ratio computations over language_df
    uploaded_file,   \* st.file_uploader widget state
    api_token,       \* st.text_input widget state
    start_date,      \* st.date_input "Start Date"
    end_date,        \* st.date_input "End Date"
    run,             \* what the last run of main() did
    selected_dates,  \* st.date_input "Select date range" of the upload tab
    gets,            \* number of outbound GETs issued so far
    clicks           \* number of fetch clicks made with a token and start <= end

dataVars == <<data, df, language_df, analysis>>
uiVars == <<uploaded_file, api_token, start_date, end_date, selected_dates, run,
            gets, clicks>>
vars == <<data, df, language_df, analysis,
          uploaded_file, api_token, start_date, end_date, selected_dates, run,
          gets, clicks>>

(***************************************************************************)
(* Bounds of the model.                                                    *)
(***************************************************************************)
MaxDays == 2      \* days in a multi-day document
MaxCount == 1     \* largest counter value
MaxItems == 2     \* entries in the lists of a single-day document
MaxNodes == 4     \* editor/model/language nodes of a nested single-day document
MaxGets == 2      \* GETs issued in one session
LastDate == 3     \* latest date of a document whose date range is selected from

Counts == 0..MaxCount
Dates == 1..MaxDays

LangNames == {"python", "go", "date", "pr_users", "editor_vscode"}
EditorNames == {"vscode", "vim"}

(***************************************************************************)
(* dict helpers                                                            *)
(***************************************************************************)
\* d.get(k, default)
Get(d, k, default) == IF k \in DOMAIN d THEN d[k] ELSE default

\* the dicts that either lack key k or map it to a value of S
OptKey(k, S) == {<<>>} \cup {k :> v : v \in S}

\* the lists over S of length at most n
Lists(S, n) == UNION {[1..k -> S] : k \in 0..n}

\* pandas' missing-value marker (a float NaN), distinct from every counter
NaN == -1

NoTable(s) == [status |-> s, columns |-> {}, rows |-> <<>>]
NotRun == NoTable("not_run")

\* pd.DataFrame(records): the columns are the union of the records' keys, a
\* row holds NaN where its record has no such key
DataFrame(records) ==
    LET cols == UNION {DOMAIN records[i] : i \in 1..Len(records)}
    IN [status |-> "ok",
        columns |-> cols,
        rows |-> [i \in 1..Len(records) |->
                    [c \in cols |-> IF c \in DOMAIN records[i]
                                    THEN records[i][c] ELSE NaN]]]

(***************************************************************************)
(* flatten_data                                                            *)
(***************************************************************************)
ScalarColumns == {"ide_chat_users", "code_completion_users", "dotcom_chat_users",
                  "pr_users", "total_active_users", "total_engaged_users"}

\* {lang['name']: lang.get('total_engaged_users', 0) for lang in languages_data}
\* (a later entry of the same name replaces an earlier one)
RECURSIVE language_usage(_)
language_usage(languages_data) ==
    IF languages_data = <<>> THEN <<>>
    ELSE LET n == Len(languages_data)
             lang == languages_data[n]
         IN (lang["name"] :> Get(lang, "total_engaged_users", 0))
            @@ language_usage(SubSeq(languages_data, 1, n - 1))

\* the editor_usage loop, and the f'editor_{k}' renaming of its keys
RECURSIVE editor_usage(_)
editor_usage(editors_data) ==
    IF editors_data = <<>> THEN <<>>
    ELSE LET n == Len(editors_data)
             editor == editors_data[n]
         IN (("editor_" \o editor["name"]) :> Get(editor, "total_engaged_users", 0))
            @@ editor_usage(SubSeq(editors_data, 1, n - 1))

\* day -> True when building its record raises KeyError
FlattenRaises(day) ==
    LET completions == Get(day, "copilot_ide_code_completions", <<>>)
        languages_data == Get(completions, "languages", <<>>)
        editors_data == Get(completions, "editors", <<>>)
    IN \/ "date" \notin DOMAIN day
       \/ \E i \in 1..Len(languages_data) : "name" \notin DOMAIN languages_data[i]
       \/ \E i \in 1..Len(editors_data) : "name" \notin DOMAIN editors_data[i]

\* the record of one day: the dict literal, later keys replacing earlier ones
FlatRecord(day) ==
    LET completions == Get(day, "copilot_ide_code_completions", <<>>)
        languages_data == Get(completions, "languages", <<>>)
        editors_data == Get(completions, "editors", <<>>)
        fixed == [date |-> day["date"],
                  ide_chat_users |->
                      Get(Get(day, "copilot_ide_chat", <<>>), "total_engaged_users", 0),
                  code_completion_users |-> Get(completions, "total_engaged_users", 0),
                  dotcom_chat_users |->
                      Get(Get(day, "copilot_dotcom_chat", <<>>), "total_engaged_users", 0),
                  pr_users |->
                      Get(Get(day, "copilot_dotcom_pull_requests", <<>>),
                          "total_engaged_users", 0),
                  total_active_users |-> Get(day, "total_active_users", 0),
                  total_engaged_users |-> Get(day, "total_engaged_users", 0)]
    IN editor_usage(editors_data) @@ language_usage(languages_data) @@ fixed

flatten_data(d) ==
    IF \E i \in 1..Len(d) : FlattenRaises(d[i])
    THEN NoTable("KeyError")
    ELSE DataFrame([i \in 1..Len(d) |-> FlatRecord(d[i])])

(***************************************************************************)
(* extract_language_acceptance_data                                        *)
(***************************************************************************)
RECURSIVE Concat(_)
Concat(lists) ==
    IF lists = <<>> THEN <<>> ELSE Head(lists) \o Concat(Tail(lists))

\* the dict appended for one language of one model
LanguageRow(date, editor_name, lang) ==
    [date |-> date,
     editor |-> editor_name,
     language |-> lang["name"],
     total_engaged_users |-> Get(lang, "total_engaged_users", 0),
     total_code_acceptances |-> Get(lang, "total_code_acceptances", 0),
     total_code_suggestions |-> Get(lang, "total_code_suggestions", 0),
     total_code_lines_accepted |-> Get(lang, "total_code_lines_accepted", 0),
     total_code_lines_suggested |-> Get(lang, "total_code_lines_suggested", 0)]

\* the loop over the languages of one model
ModelRows(date, editor_name, model) ==
    LET languages == Get(model, "languages", <<>>)
    IN [l \in 1..Len(languages) |-> LanguageRow(date, editor_name, languages[l])]

\* (mutant) only the first model of an editor is read
EditorRows_first_model(date, editor) ==
    LET models == Get(editor, "models", <<>>)
    IN IF models = <<>> THEN <<>> ELSE ModelRows(date, editor["name"], models[1])

\* the loop over the models of one editor
EditorRows(date, editor) ==
    LET models == Get(editor, "models", <<>>)
    IN Concat([m \in 1..Len(models) |-> ModelRows(date, editor["name"], models[m])])

\* the loop over the editors of one day
DayRows(day) ==
    LET editors == Get(Get(day, "copilot_ide_code_completions", <<>>), "editors", <<>>)
    IN Concat([e \in 1..Len(editors) |-> EditorRows(day["date"], editors[e])])

\* (mutant) the editor's name is looked up only when a row is emitted
ExtractRaises_name_on_emit(day) ==
    LET editors == Get(Get(day, "copilot_ide_code_completions", <<>>), "editors", <<>>)
    IN \/ "date" \notin DOMAIN day
       \/ \E e \in 1..Len(editors) :
            LET models == Get(editors[e], "models", <<>>)
            IN \E m \in 1..Len(models) :
                 LET languages == Get(models[m], "languages", <<>>)
                 IN \E l \in 1..Len(languages) :
                      \/ "name" \notin DOMAIN editors[e]
                      \/ "name" \notin DOMAIN languages[l]

\* day -> True when the traversal of the day raises KeyError
ExtractRaises(day) ==
    LET editors == Get(Get(day, "copilot_ide_code_completions", <<>>), "editors", <<>>)
    IN \/ "date" \notin DOMAIN day
       \/ \E e \in 1..Len(editors) :
            \/ "name" \notin DOMAIN editors[e]
            \/ LET models == Get(editors[e], "models", <<>>)
               IN \E m \in 1..Len(models) :
                    LET languages == Get(models[m], "languages", <<>>)
                    IN \E l \in 1..Len(languages) : "name" \notin DOMAIN languages[l]

extract_language_acceptance_data(d) ==
    IF \E i \in 1..Len(d) : ExtractRaises(d[i])
    THEN NoTable("KeyError")
    ELSE DataFrame(Concat([i \in 1..Len(d) |-> DayRows(d[i])]))

(***************************************************************************)
(* Ratio computations.  A float is [kind, num, den]: kind "finite" with    *)
(* the exact value num/den in lowest terms, or "inf", "-inf", "nan".       *)
(* Rounding of the binary floating-point result is not modelled.           *)
(***************************************************************************)
RECURSIVE GCD(_, _)
GCD(a, b) == IF b = 0 THEN a ELSE GCD(b, a % b)

Abs(a) == IF a < 0 THEN -a ELSE a

Finite(n, d) ==
    LET g == GCD(Abs(n), d)
    IN [kind |-> "finite", num |-> n \div g, den |-> d \div g]

Zero == Finite(0, 1)
Inf == [kind |-> "inf", num |-> 0, den |-> 0]
NegInf == [kind |-> "-inf", num |-> 0, den |-> 0]
NotANumber == [kind |-> "nan", num |-> 0, den |-> 0]

\* a / b on two integer columns: numpy's float division, which raises nothing
SeriesDiv(a, b) ==
    IF b # 0 THEN Finite(a, b)
    ELSE IF a > 0 THEN Inf ELSE IF a < 0 THEN NegInf ELSE NotANumber

\* x * 100
Times100(x) == IF x.kind = "finite" THEN Finite(x.num * 100, x.den) ELSE x

\* .replace([np.inf, -np.inf], 0)
ReplaceInf(x) == IF x.kind \in {"inf", "-inf"} THEN Zero ELSE x

\* (mutant) NaN is left in place
FillNa_omitted(x) == x

\* .fillna(0)
FillNa(x) == IF x.kind = "nan" THEN Zero ELSE x

\* the three statements that compute a rate column
RateColumn(accepted, suggested) ==
    FillNa(ReplaceInf(Times100(SeriesDiv(accepted, suggested))))

\* (a / b * 100) if b > 0 else 0
GuardedRate(accepted, suggested) ==
    IF suggested > 0 THEN Times100(SeriesDiv(accepted, suggested)) ELSE Zero

RECURSIVE SumCol(_, _)
SumCol(rows, col) ==
    IF rows = <<>> THEN 0 ELSE Head(rows)[col] + SumCol(Tail(rows), col)

\* rows[rows[col] == v]
RECURSIVE Where(_, _, _)
Where(rows, col, v) ==
    IF rows = <<>> THEN <<>>
    ELSE IF Head(rows)[col] = v THEN <<Head(rows)>> \o Where(Tail(rows), col, v)
         ELSE Where(Tail(rows), col, v)

Values(rows, col) == {rows[i][col] : i \in 1..Len(rows)}

\* create_individual_language_charts: the acceptance_rate column of every
\* language that gets a chart, row by row
create_individual_language_charts(rows) ==
    LET charted == {l \in Values(rows, "language") :
                        /\ l # "unknown"
                        /\ SumCol(Where(rows, "language", l), "total_engaged_users") > 0}
    IN [l \in charted |->
          LET lang_data == Where(rows, "language", l)
          IN [i \in 1..Len(lang_data) |->
                RateColumn(lang_data[i].total_code_acceptances,
                           lang_data[i].total_code_suggestions)]]

\* create_acceptance_rate_analysis: language_stats before the usage filter
create_acceptance_rate_analysis(rows) ==
    [l \in Values(rows, "language") |->
        LET g == Where(rows, "language", l)
            acc == SumCol(g, "total_code_acceptances")
            sug == SumCol(g, "total_code_suggestions")
            lacc == SumCol(g, "total_code_lines_accepted")
            lsug == SumCol(g, "total_code_lines_suggested")
        IN [total_code_acceptances |-> acc,
            total_code_suggestions |-> sug,
            total_code_lines_accepted |-> lacc,
            total_code_lines_suggested |-> lsug,
            total_engaged_users |-> SumCol(g, "total_engaged_users"),
            acceptance_rate |-> RateColumn(acc, sug),
            lines_acceptance_rate |-> RateColumn(lacc, lsug)]]

\* create_productivity_analysis: the overall rates and daily_stats
create_productivity_analysis(rows) ==
    LET total_suggestions == SumCol(rows, "total_code_suggestions")
        total_acceptances == SumCol(rows, "total_code_acceptances")
        total_lines_suggested == SumCol(rows, "total_code_lines_suggested")
        total_lines_accepted == SumCol(rows, "total_code_lines_accepted")
    IN [total_suggestions |-> total_suggestions,
        total_acceptances |-> total_acceptances,
        total_lines_suggested |-> total_lines_suggested,
        total_lines_accepted |-> total_lines_accepted,
        overall_acceptance_rate |-> GuardedRate(total_acceptances, total_suggestions),
        lines_acceptance_rate |-> GuardedRate(total_lines_accepted, total_lines_suggested),
        daily_stats |->
            [d \in Values(rows, "date") |->
                LET g == Where(rows, "date", d)
                    acc == SumCol(g, "total_code_acceptances")
                    sug == SumCol(g, "total_code_suggestions")
                IN [total_code_acceptances |-> acc,
                    total_code_suggestions |-> sug,
                    acceptance_rate |-> RateColumn(acc, sug)]]]

NoAnalysis(s) ==
    [status |-> s, charts |-> <<>>, language_stats |-> <<>>, productivity |-> <<>>]

\* the three ratio computations display_analysis runs on the language table;
\* a table built from no rows has no columns, and indexing it raises KeyError
Analyse(ldf) ==
    IF ldf.rows = <<>> THEN NoAnalysis("KeyError")
    ELSE [status |-> "ok",
          charts |-> create_individual_language_charts(ldf.rows),
          language_stats |-> create_acceptance_rate_analysis(ldf.rows),
          productivity |-> create_productivity_analysis(ldf.rows)]

(***************************************************************************)
(* Input documents: lists of day records.  Single-day documents vary one   *)
(* part of the day each (the scalar sections, the completions lists, the   *)
(* editor/model/language nesting, the counters); multi-day documents are   *)
(* built from a few days that differ in date and in the names they list.   *)
(***************************************************************************)
Front(s) == SubSeq(s, 1, Len(s) - 1)
Last(s) == s[Len(s)]

SectionDicts == OptKey("total_engaged_users", Counts)

ScalarDays ==
    {("date" :> 1) @@ a @@ b @@ c @@ p @@ ta @@ te :
        a \in OptKey("copilot_ide_chat", SectionDicts),
        b \in OptKey("copilot_ide_code_completions", SectionDicts),
        c \in OptKey("copilot_dotcom_chat", SectionDicts),
        p \in OptKey("copilot_dotcom_pull_requests", SectionDicts),
        ta \in OptKey("total_active_users", Counts),
        te \in OptKey("total_engaged_users", Counts)}

LangEntries ==
    {n @@ u : n \in OptKey("name", LangNames),
              u \in OptKey("total_engaged_users", 1..MaxCount)}

EditorEntries ==
    {n @@ u : n \in OptKey("name", EditorNames),
              u \in OptKey("total_engaged_users", 1..MaxCount)}

ListKey(k, list) == IF list = <<>> THEN <<>> ELSE k :> list

CompletionsDay(date, completions) ==
    date @@ ("copilot_ide_code_completions" :> completions)

ListDays ==
    UNION {UNION {{CompletionsDay("date" :> 1, ListKey("languages", ls) @@ ListKey("editors", es)) :
                        ls \in [1..j -> LangEntries], es \in [1..(k - j) -> EditorEntries]} :
                  j \in 0..k} :
           k \in 0..MaxItems}

\* A nested editors list is written as a sequence of nodes: an editor, a model
\* of the last editor, a language of the last model.
Nodes ==
    {[t |-> "editor", d |-> n] : n \in OptKey("name", EditorNames)}
    \cup {[t |-> "model", d |-> <<>>]}
    \cup {[t |-> "lang", d |-> n] : n \in OptKey("name", {"python", "go"})}

RECURSIVE Level(_)
Level(ns) ==
    IF ns = <<>> THEN 0
    ELSE LET p == Level(Front(ns))
             t == Last(ns).t
         IN IF p < 0 THEN p
            ELSE IF t = "editor" THEN 1
            ELSE IF t = "model" THEN (IF p >= 1 THEN 2 ELSE -1)
            ELSE (IF p = 2 THEN 2 ELSE -1)

AddTo(dict, key, item) == (key :> Append(Get(dict, key, <<>>), item)) @@ dict
ReplaceLast(list, item) == Append(Front(list), item)

RECURSIVE Build(_)
Build(ns) ==
    IF ns = <<>> THEN <<>>
    ELSE LET editors == Build(Front(ns))
             node == Last(ns)
         IN IF node.t = "editor" THEN Append(editors, node.d)
            ELSE IF node.t = "model"
            THEN ReplaceLast(editors, AddTo(Last(editors), "models", <<>>))
            ELSE LET editor == Last(editors)
                     model == Last(editor["models"])
                 IN ReplaceLast(editors,
                       ("models" :> ReplaceLast(editor["models"],
                                                AddTo(model, "languages", node.d)))
                       @@ editor)

NestedDays ==
    {CompletionsDay("date" :> 1, "editors" :> Build(ns)) :
        ns \in {x \in Lists(Nodes, MaxNodes) : Level(x) >= 0}}

Counters(a, s) ==
    [total_engaged_users |-> a,
     total_code_acceptances |-> a,
     total_code_suggestions |-> s,
     total_code_lines_accepted |-> s,
     total_code_lines_suggested |-> a]

CounterLangs ==
    {("name" :> n) @@ Counters(a, s) : n \in {"python", "go"}, a \in Counts, s \in Counts}

CounterDays ==
    {CompletionsDay("date" :> 1,
        "editors" :> <<[name |-> "vscode", models |-> <<ListKey("languages", ls)>>]>>) :
        ls \in Lists(CounterLangs, MaxItems)}

\* rows given by their place: consecutive rows of the same editor and model
\* share that editor and that model
Places ==
    {[editor |-> e, model |-> m, name |-> n] :
        e \in EditorNames, m \in {"m1", "m2"}, n \in {"python", "go"}}

RECURSIVE PlaceNodes(_)
PlaceNodes(ps) ==
    IF ps = <<>> THEN <<>>
    ELSE LET p == Last(ps)
             lang == [t |-> "lang", d |-> ("name" :> p.name) @@ Counters(MaxCount, MaxCount)]
             newEditor == Len(ps) = 1 \/ ps[Len(ps) - 1].editor # p.editor
             newModel == newEditor \/ ps[Len(ps) - 1].model # p.model
         IN PlaceNodes(Front(ps))
            \o (IF newEditor THEN <<[t |-> "editor", d |-> ("name" :> p.editor)]>> ELSE <<>>)
            \o (IF newModel THEN <<[t |-> "model", d |-> <<>>]>> ELSE <<>>)
            \o <<lang>>

TripleDays ==
    {CompletionsDay("date" :> 1, "editors" :> Build(PlaceNodes(ps))) :
        ps \in Lists(Places, MaxItems)}

SeqContents ==
    {<<>>}
    \cup {"copilot_ide_code_completions" :> ("languages" :> <<l>>) :
            l \in {n @@ ("total_engaged_users" :> MaxCount) : n \in OptKey("name", LangNames \ {"go"})}}
    \cup {"copilot_ide_code_completions" :> ("editors" :> <<e>>) :
            e \in {<<>>,
                   [name |-> "vscode", total_engaged_users |-> MaxCount,
                    models |-> <<[languages |-> <<("name" :> "python") @@ Counters(MaxCount, 0)>>]>>],
                   [name |-> "vim",
                    models |-> <<[languages |-> <<("name" :> "go") @@ Counters(0, MaxCount)>>]>>]}}

SeqDays == {d @@ c : d \in OptKey("date", {1, 2}), c \in SeqContents}

Docs ==
    {<<d>> : d \in ScalarDays \cup ListDays \cup NestedDays \cup CounterDays \cup TripleDays}
    \cup Lists(SeqDays, MaxDays)

(***************************************************************************)
(* The dashboard session.  Streamlit reruns main() from the top on every   *)
(* user interaction; widget values persist between runs, the fetch button  *)
(* is True only in the run its click triggers, and an exception that        *)
(* escapes main() ends the run, so nothing after it is rendered.           *)
(***************************************************************************)
ErrLoad == "Error loading JSON file"
ErrProcess == "Failed to process the uploaded file. Please check the format."
ErrToken == "Please enter a GitHub API token."
ErrDates == "Start date must be before end date."
ErrFetch == "Error fetching data from GitHub API"
Err401 == "Authentication failed. Please check your GitHub API token."
Err403 == "Permission denied. Please ensure your token has the required scopes."
Err404 == "Organization not found or Copilot metrics not available."
ErrFailed == "Failed to fetch data from GitHub API. Please check your token and try again."

\* what a call hands back: a value, None, or an exception that escapes it
Returned(v) == [kind |-> "value", value |-> v, exc |-> ""]
None == [kind |-> "None", value |-> <<>>, exc |-> ""]
Raised(e) == [kind |-> "raise", value |-> <<>>, exc |-> e]

\* `if raw_data:` -- None and the empty list are both falsy
Truthy(r) == r.kind = "value" /\ r.value # <<>>

\* a day with one editor, one model and one language
UsageDay(d, active) ==
    [date |-> d, total_active_users |-> active, total_engaged_users |-> MaxCount,
     copilot_ide_code_completions |->
        [editors |-> <<[name |-> "vscode",
                        models |-> <<[languages |->
                             <<("name" :> "python") @@ Counters(0, MaxCount)>>]>>]>>]]

\* the documents a file or a response body can hold in a session
SessionDocs ==
    {<<>>,
     <<[date |-> 1]>>,
     <<[total_active_users |-> MaxCount]>>,
     <<[date |-> 1, total_active_users |-> MaxCount,
        copilot_ide_code_completions |->
           [editors |-> <<[name |-> "vscode",
                           models |-> <<[languages |->
                                <<("name" :> "python") @@ Counters(MaxCount, MaxCount)>>]>>]>>]]>>}

\* documents of days whose dates may repeat, come in any order and leave days
\* without data; a day with no editor contributes no language row
RangeDays == {UsageDay(d, a) : d \in 1..LastDate, a \in {0, MaxCount}} \cup {[date |-> 1]}
RangeDocs == {<<x>> : x \in RangeDays} \cup {<<x, y>> : x \in RangeDays, y \in RangeDays}

NoFile == [kind |-> "none", content |-> <<>>]
Files == {[kind |-> "json", content |-> d] : d \in SessionDocs}
         \cup {[kind |-> "garbage", content |-> <<>>]}
RangeFiles == {[kind |-> "json", content |-> d] : d \in RangeDocs}

HttpStatuses == {200, 300, 401, 403, 404, 500}

NoResponse == [kind |-> "none", status |-> 0, body |-> NoFile]
Responses ==
    {[kind |-> "network_error", status |-> 0, body |-> NoFile]}
    \cup {[kind |-> "http", status |-> st, body |-> b] : st \in HttpStatuses, b \in Files}

\* load_data: json.load, any exception reported and turned into None
load_data(file) ==
    IF file.kind = "json"
    THEN [result |-> Returned(file.content), errors |-> {}]
    ELSE [result |-> None, errors |-> {ErrLoad}]

\* Response.raise_for_status raises HTTPError for 4xx and 5xx only
RaiseForStatus(status) == 400 <= status /\ status < 600

\* (mutant) the 404 branch is missing
StatusErrors_no_404(status) ==
    IF status = 401 THEN {Err401}
    ELSE IF status = 403 THEN {Err403}
    ELSE {}

\* the if/elif chain on response.status_code in the except block
StatusErrors(status) ==
    IF status = 401 THEN {Err401}
    ELSE IF status = 403 THEN {Err403}
    ELSE IF status = 404 THEN {Err404}
    ELSE {}

\* fetch_github_copilot_data, answered by `response`.  When requests.get
\* itself raises, `response` was never bound and reading response.status_code
\* in the except block raises UnboundLocalError.  response.json() raises on a
\* body that is no JSON; whether that exception is a RequestException depends
\* on the version of requests (json_error_caught).
fetch_github_copilot_data(token, since, until, response, json_error_caught) ==
    IF response.kind = "network_error"
    THEN [result |-> Raised("UnboundLocalError"), errors |-> {ErrFetch}]
    ELSE IF RaiseForStatus(response.status)
    THEN [result |-> None, errors |-> {ErrFetch} \cup StatusErrors(response.status)]
    ELSE IF response.body.kind = "json"
    THEN [result |-> Returned(response.body.content), errors |-> {}]
    ELSE IF json_error_caught
    THEN [result |-> None, errors |-> {ErrFetch} \cup StatusErrors(response.status)]
    ELSE [result |-> Raised("JSONDecodeError"), errors |-> {}]

\* the value of the "Select date range" widget: the default value
\* (min_date, max_date), one date while a range is being picked, or a pair
DefaultRange == [kind |-> "default", start |-> 0, end |-> 0]
OneDate(d) == [kind |-> "single", start |-> d, end |-> d]
DateRange(s, e) == [kind |-> "pair", start |-> s, end |-> e]

\* df['date'].min(), df['date'].max()
MinDate(rows) == CHOOSE d \in Values(rows, "date") : \A x \in Values(rows, "date") : d <= x
MaxDate(rows) == CHOOSE d \in Values(rows, "date") : \A x \in Values(rows, "date") : x <= d

\* what st.date_input lets the user select between min_value and max_value
Selections(min_date, max_date) ==
    {OneDate(d) : d \in min_date..max_date}
    \cup UNION {{DateRange(s, e) : e \in s..max_date} : s \in min_date..max_date}

\* df[(df['date'] >= start_date) & (df['date'] <= end_date)]
RECURSIVE Between(_, _, _)
Between(rows, s, e) ==
    IF rows = <<>> THEN <<>>
    ELSE IF Head(rows).date >= s /\ Head(rows).date <= e
         THEN <<Head(rows)>> \o Between(Tail(rows), s, e)
         ELSE Between(Tail(rows), s, e)

\* the `if len(selected_dates) == 2:` statement
Filtered(rows, selected, min_date, max_date) ==
    IF selected.kind = "default" THEN Between(rows, min_date, max_date)
    ELSE IF selected.kind = "pair" THEN Between(rows, selected.start, selected.end)
    ELSE rows

\* rows.loc[rows[col].idxmax()]: the first row holding the largest value
idxmax(rows, col) ==
    CHOOSE i \in 1..Len(rows) :
        /\ \A j \in 1..Len(rows) : rows[j][col] <= rows[i][col]
        /\ \A j \in 1..(i - 1) : rows[j][col] < rows[i][col]

NoDisplay(s) ==
    [status |-> s, charts |-> <<>>, language_stats |-> <<>>, productivity |-> <<>>,
     filtered_df |-> <<>>, filtered_language_df |-> <<>>,
     max_active_day |-> <<>>, max_engaged_day |-> <<>>]

\* display_analysis up to the "Key Insights" section: the ratio computations
\* run on the filtered language table
Report(filtered_df, filtered_language_df) ==
    [status |-> "ValueError",
     charts |-> create_individual_language_charts(filtered_language_df),
     language_stats |-> create_acceptance_rate_analysis(filtered_language_df),
     productivity |-> create_productivity_analysis(filtered_language_df),
     filtered_df |-> filtered_df,
     filtered_language_df |-> filtered_language_df,
     max_active_day |-> <<>>,
     max_engaged_day |-> <<>>]

\* the "Key Insights" section: idxmax of an empty filtered table raises
\* ValueError
Insights(shown) ==
    IF shown.filtered_df = <<>> THEN shown
    ELSE [shown EXCEPT
            !.status = "ok",
            !.max_active_day =
                shown.filtered_df[idxmax(shown.filtered_df, "total_active_users")],
            !.max_engaged_day =
                shown.filtered_df[idxmax(shown.filtered_df, "total_engaged_users")]]

\* display_analysis: indexing a language table built from no rows raises
\* KeyError, before the date range widget is rendered
display_analysis(table, language_table, selected) ==
    IF language_table.rows = <<>> THEN NoDisplay("KeyError")
    ELSE Insights(Report(
             Filtered(table.rows, selected, MinDate(table.rows), MaxDate(table.rows)),
             Filtered(language_table.rows, selected,
                      MinDate(table.rows), MaxDate(table.rows))))

NotProcessed ==
    [df |-> NotRun, language_df |-> NotRun, analysis |-> NoDisplay("not_run"), exc |-> ""]

\* the outcome of a run in which display_analysis was called
Shown(table, language_table, shown) ==
    [df |-> table, language_df |-> language_table, analysis |-> shown,
     exc |-> IF shown.status = "ok" THEN "" ELSE shown.status]

\* df = flatten_data(raw_data); language_df = extract...(raw_data);
\* display_analysis(df, language_df) -- the first exception ends the run
Process(raw_data, selected) ==
    LET table == flatten_data(raw_data)
        language_table == extract_language_acceptance_data(raw_data)
    IN IF table.status # "ok"
       THEN [NotProcessed EXCEPT !.df = table, !.exc = table.status]
       ELSE IF language_table.status # "ok"
       THEN [NotProcessed EXCEPT !.df = table, !.language_df = language_table,
                                 !.exc = language_table.status]
       ELSE Shown(table, language_table,
                  display_analysis(table, language_table, selected))

\* the upload tab of main()
UploadTab(file, selected) ==
    IF file.kind = "none"
    THEN [raw_data |-> None, out |-> NotProcessed, errors |-> {}]
    ELSE LET loaded == load_data(file)
         IN IF Truthy(loaded.result)
            THEN [raw_data |-> loaded.result, out |-> Process(loaded.result.value, selected),
                  errors |-> loaded.errors]
            ELSE [raw_data |-> loaded.result, out |-> NotProcessed,
                  errors |-> loaded.errors \cup {ErrProcess}]

\* (mutant) the date check is missing
FetchAllowed_no_date_check(token, since, until) == token # ""

\* the if/elif/else under the fetch button: a token, and start <= end
FetchAllowed(token, since, until) == token # "" /\ ~(since > until)

NoFetchTab ==
    [requested |-> FALSE, response |-> NoResponse, raw_data |-> None,
     out |-> NotProcessed, errors |-> {}, success |-> FALSE, download |-> FALSE,
     exc |-> ""]

\* the fetch tab of main()
FetchTab(button, token, since, until, response, json_error_caught) ==
    IF ~button THEN NoFetchTab
    ELSE IF ~FetchAllowed(token, since, until)
    THEN [NoFetchTab EXCEPT !.errors = IF token = "" THEN {ErrToken} ELSE {ErrDates}]
    ELSE LET fetched == fetch_github_copilot_data(token, since, until, response,
                                                  json_error_caught)
             sent == [NoFetchTab EXCEPT !.requested = TRUE, !.response = response,
                                        !.raw_data = fetched.result,
                                        !.errors = fetched.errors]
         IN IF fetched.result.kind = "raise"
            THEN [sent EXCEPT !.exc = fetched.result.exc]
            ELSE IF Truthy(fetched.result)
            THEN LET out == Process(fetched.result.value, DefaultRange)
                 IN [sent EXCEPT !.out = out, !.success = TRUE, !.exc = out.exc,
                                 !.download = (out.exc = "")]
            ELSE [sent EXCEPT !.errors = fetched.errors \cup {ErrFailed}]

\* one run of main()
main(event, file, selected, token, since, until, button, response, json_error_caught) ==
    LET tab1 == UploadTab(file, selected)
    IN IF tab1.out.exc # ""
       THEN [event |-> event, tab1 |-> tab1, rendered2 |-> FALSE, tab2 |-> NoFetchTab,
             exc |-> tab1.out.exc]
       ELSE LET tab2 == FetchTab(button, token, since, until, response, json_error_caught)
            IN [event |-> event, tab1 |-> tab1, rendered2 |-> TRUE, tab2 |-> tab2,
                exc |-> tab2.exc]

Rerun(event, file, selected, token, since, until) ==
    main(event, file, selected, token, since, until, FALSE, NoResponse, TRUE)

\* the user picks or replaces the file; a "Select date range" widget that is
\* rendered for the new file starts from its default value
Upload ==
    \E f \in Files :
        /\ uploaded_file' = f
        /\ selected_dates' = DefaultRange
        /\ run' = Rerun("upload", f, DefaultRange, api_token, start_date, end_date)
        /\ UNCHANGED <<api_token, start_date, end_date, gets, clicks, dataVars>>

\* the same, the file being one whose date range is worth selecting from
UploadDays ==
    \E f \in RangeFiles :
        /\ uploaded_file' = f
        /\ selected_dates' = DefaultRange
        /\ run' = Rerun("upload", f, DefaultRange, api_token, start_date, end_date)
        /\ UNCHANGED <<api_token, start_date, end_date, gets, clicks, dataVars>>

\* the user removes the file
RemoveFile ==
    /\ uploaded_file # NoFile
    /\ uploaded_file' = NoFile
    /\ selected_dates' = DefaultRange
    /\ run' = Rerun("remove", NoFile, DefaultRange, api_token, start_date, end_date)
    /\ UNCHANGED <<api_token, start_date, end_date, gets, clicks, dataVars>>

\* the user types or clears the token
EditToken ==
    \E t \in {"", "token"} :
        /\ run.rendered2
        /\ t # api_token
        /\ api_token' = t
        /\ run' = Rerun("edit", uploaded_file, selected_dates, t, start_date, end_date)
        /\ UNCHANGED <<uploaded_file, selected_dates, start_date, end_date, gets, clicks,
                       dataVars>>

\* the user changes the start or the end date
EditDates ==
    \E s \in Dates, e \in Dates :
        /\ run.rendered2
        /\ <<s, e>> # <<start_date, end_date>>
        /\ s = start_date \/ e = end_date
        /\ start_date' = s
        /\ end_date' = e
        /\ run' = Rerun("edit", uploaded_file, selected_dates, api_token, s, e)
        /\ UNCHANGED <<uploaded_file, selected_dates, api_token, gets, clicks, dataVars>>

\* the user clicks "Fetch Data from GitHub API"; the API's answer and the
\* installed version of requests are the environment's choice
ClickFetch ==
    \E response \in Responses, json_error_caught \in BOOLEAN :
        /\ run.rendered2
        /\ gets < MaxGets
        /\ run' = main("click", uploaded_file, selected_dates, api_token, start_date,
                       end_date, TRUE, response, json_error_caught)
        /\ gets' = IF run'.tab2.requested THEN gets + 1 ELSE gets
        /\ clicks' = IF api_token # "" /\ start_date <= end_date
                     THEN clicks + 1 ELSE clicks
        /\ UNCHANGED <<uploaded_file, selected_dates, api_token, start_date, end_date,
                       dataVars>>

\* the "Select date range" widget of the upload tab was rendered in the last run
RangeShown == run.tab1.out.analysis.status \in {"ok", "ValueError"}

\* the user picks one date or a range in "Select date range"
SelectDates ==
    /\ RangeShown
    /\ \E selected \in Selections(MinDate(run.tab1.out.df.rows),
                                  MaxDate(run.tab1.out.df.rows)) :
        /\ selected # selected_dates
        /\ selected_dates' = selected
        /\ run' = Rerun("select", uploaded_file, selected, api_token, start_date,
                        end_date)
        /\ UNCHANGED <<uploaded_file, api_token, start_date, end_date, gets, clicks,
                       dataVars>>

(***************************************************************************)
(* The two transformations and the ratio computations applied to a         *)
(* document, in the order main() calls them.                               *)
(***************************************************************************)
CallFlatten ==
    /\ df = NotRun
    /\ df' = flatten_data(data)
    /\ UNCHANGED <<data, language_df, analysis, uiVars>>

CallExtract ==
    /\ language_df = NotRun
    /\ language_df' = extract_language_acceptance_data(data)
    /\ UNCHANGED <<data, df, analysis, uiVars>>

CallAnalyse ==
    /\ language_df.status = "ok"
    /\ analysis.status = "not_run"
    /\ analysis' = Analyse(language_df)
    /\ UNCHANGED <<data, df, language_df, uiVars>>

\* the first run of main(): no file, no token, the default dates
InitUI ==
    /\ uploaded_file = NoFile
    /\ api_token = ""
    /\ start_date = 1
    /\ end_date = MaxDays
    /\ selected_dates = DefaultRange
    /\ run = Rerun("start", NoFile, DefaultRange, "", 1, MaxDays)
    /\ gets = 0
    /\ clicks = 0

InitData ==
    /\ data \in Docs
    /\ df = NotRun
    /\ language_df = NotRun
    /\ analysis = NoAnalysis("not_run")
    /\ InitUI

NextData == CallFlatten \/ CallExtract \/ CallAnalyse

SpecData == InitData /\ [][NextData]_vars

Init ==
    /\ data = <<>>
    /\ df = NotRun
    /\ language_df = NotRun
    /\ analysis = NoAnalysis("not_run")
    /\ InitUI

\* sessions that fetch, with the date range of an uploaded file left as it is
Next == Upload \/ RemoveFile \/ EditToken \/ EditDates \/ ClickFetch

Spec == Init /\ [][Next]_vars

\* sessions that upload files and select date ranges in the upload tab
NextRange == UploadDays \/ RemoveFile \/ SelectDates

SpecRange == Init /\ [][NextRange]_vars

(***************************************************************************)
(* Properties of the two transformations (checked under SpecData).         *)
(***************************************************************************)
SectionOf ==
    [ide_chat_users |-> "copilot_ide_chat",
     code_completion_users |-> "copilot_ide_code_completions",
     dotcom_chat_users |-> "copilot_dotcom_chat",
     pr_users |-> "copilot_dotcom_pull_requests"]

\* what the day record says about a scalar column: its value, 0 when missing
DayScalar(day, col) ==
    IF col \in DOMAIN SectionOf
    THEN IF /\ SectionOf[col] \in DOMAIN day
            /\ "total_engaged_users" \in DOMAIN day[SectionOf[col]]
         THEN day[SectionOf[col]]["total_engaged_users"]
         ELSE 0
    ELSE IF col \in DOMAIN day THEN day[col] ELSE 0

DayLanguages(day) ==
    IF "copilot_ide_code_completions" \in DOMAIN day
       /\ "languages" \in DOMAIN day["copilot_ide_code_completions"]
    THEN day["copilot_ide_code_completions"]["languages"]
    ELSE <<>>

DayEditors(day) ==
    IF "copilot_ide_code_completions" \in DOMAIN day
       /\ "editors" \in DOMAIN day["copilot_ide_code_completions"]
    THEN day["copilot_ide_code_completions"]["editors"]
    ELSE <<>>

\* the language names and the editor names a day lists
LanguageNames(day) == {DayLanguages(day)[i]["name"] : i \in 1..Len(DayLanguages(day))}
EditorNamesOf(day) == {DayEditors(day)[i]["name"] : i \in 1..Len(DayEditors(day))}

\* every name observed in the document, tagged with its kind
Observed ==
    UNION {{<<"language", n>> : n \in LanguageNames(data[i])}
           \cup {<<"editor", n>> : n \in EditorNamesOf(data[i])} : i \in 1..Len(data)}

ColumnOf(x) == IF x[1] = "editor" THEN "editor_" \o x[2] ELSE x[2]

DynamicColumns == df.columns \ ({"date"} \cup ScalarColumns)

\* C1: every scalar column of every row is present and equals the value of the
\* day record, or 0 when the section or the field is missing, whatever names
\* the day lists.
C1_ScalarColumns ==
    df.status = "ok" =>
        \A i \in 1..Len(data) : \A col \in ScalarColumns :
            /\ col \in DOMAIN df.rows[i]
            /\ df.rows[i][col] = DayScalar(data[i], col)

\* C2: one row per day record, in input order, row i carrying the date of day i.
C2_OneRowPerDay ==
    df.status = "ok" =>
        /\ Len(df.rows) = Len(data)
        /\ \A i \in 1..Len(data) : df.rows[i]["date"] = data[i]["date"]

\* C3: the dynamic columns correspond one-to-one to the observed names: every
\* observed name has its column, every dynamic column is the column of an
\* observed name, and two distinct observed names never share a column.
C3_DynamicColumnsOneToOne ==
    df.status = "ok" =>
        /\ \A x \in Observed : ColumnOf(x) \in DynamicColumns
        /\ \A c \in DynamicColumns : \E x \in Observed : ColumnOf(x) = c
        /\ \A x, y \in Observed : ColumnOf(x) = ColumnOf(y) => x = y

\* C4: a dynamic column holds 0 in every row whose day did not list that
\* language or editor.
C4_ZeroFilled ==
    df.status = "ok" =>
        \A i \in 1..Len(data) : \A c \in DynamicColumns :
            (/\ c \notin LanguageNames(data[i])
             /\ c \notin {"editor_" \o n : n \in EditorNamesOf(data[i])})
            => df.rows[i][c] = 0

\* the models an editor lists and the languages a model lists
ModelsOf(editor) == IF "models" \in DOMAIN editor THEN editor["models"] ELSE <<>>
LanguagesOf(model) == IF "languages" \in DOMAIN model THEN model["languages"] ELSE <<>>
Field(d, k) == IF k \in DOMAIN d THEN d[k] ELSE 0

\* the (day, editor, model, language) positions present in the document
Triples ==
    UNION {UNION {UNION {{<<i, e, m, l>> :
                            l \in 1..Len(LanguagesOf(ModelsOf(DayEditors(data[i])[e])[m]))} :
                         m \in 1..Len(ModelsOf(DayEditors(data[i])[e]))} :
                  e \in 1..Len(DayEditors(data[i]))} :
           i \in 1..Len(data)}

\* nested traversal order: day, then editor, then model, then language
Before(u, v) ==
    \E k \in 1..4 : u[k] < v[k] /\ \A j \in 1..(k - 1) : u[j] = v[j]

Rank(t) == Cardinality({u \in Triples : Before(u, t)}) + 1

CounterColumns ==
    {"total_engaged_users", "total_code_acceptances", "total_code_suggestions",
     "total_code_lines_accepted", "total_code_lines_suggested"}

\* C5: extract_language_acceptance_data emits exactly one row per (editor,
\* model, language) triple of each day, in nested traversal order, each row
\* carrying its own day's date, its editor's and language's name and that
\* language's own counters (nothing merged or summed); a day with no editor
\* contributes no row.
C5_OneRowPerTriple ==
    language_df.status = "ok" =>
        /\ Len(language_df.rows) = Cardinality(Triples)
        /\ \A i \in 1..Len(data) :
              Cardinality({k \in 1..Len(language_df.rows) :
                              \E t \in Triples : t[1] = i /\ Rank(t) = k})
              = Cardinality({t \in Triples : t[1] = i})
        /\ \A t \in Triples :
              LET row == language_df.rows[Rank(t)]
                  editor == DayEditors(data[t[1]])[t[2]]
                  lang == LanguagesOf(ModelsOf(editor)[t[3]])[t[4]]
              IN /\ row["date"] = data[t[1]]["date"]
                 /\ row["editor"] = editor["name"]
                 /\ row["language"] = lang["name"]
                 /\ \A c \in CounterColumns : row[c] = Field(lang, c)

\* two models of one editor name the same language on the same day, and both
\* rows are in the table
C5_Witness ==
    /\ language_df.status = "ok"
    /\ \E t, u \in Triples :
          /\ t[1] = u[1] /\ t[2] = u[2] /\ t[3] # u[3]
          /\ language_df.rows[Rank(t)]["language"] = language_df.rows[Rank(u)]["language"]
          /\ Rank(t) # Rank(u)

RECURSIVE SumIdx(_, _, _)
SumIdx(rows, col, I) ==
    IF I = {} THEN 0
    ELSE LET i == CHOOSE x \in I : TRUE
         IN rows[i][col] + SumIdx(rows, col, I \ {i})

RowsWith(col, v) == {i \in 1..Len(language_df.rows) : language_df.rows[i][col] = v}

\* rate is numerator / denominator * 100, and exactly 0 when denominator is 0
RateIs(rate, numerator, denominator) ==
    /\ rate.kind = "finite"
    /\ IF denominator = 0
       THEN rate.num = 0 /\ rate.den = 1
       ELSE rate.den > 0 /\ rate.num * denominator = numerator * 100 * rate.den

\* C6: in every ratio computation the rate is 0 when the summed denominator is
\* 0, whatever the numerator, never NaN or infinite, and numerator /
\* denominator * 100 when the denominator is positive.
C6_RatesZeroGuarded ==
    analysis.status = "ok" =>
        LET rows == language_df.rows
            all == 1..Len(rows)
        IN /\ \A l \in DOMAIN analysis.language_stats :
                /\ RateIs(analysis.language_stats[l].acceptance_rate,
                          SumIdx(rows, "total_code_acceptances", RowsWith("language", l)),
                          SumIdx(rows, "total_code_suggestions", RowsWith("language", l)))
                /\ RateIs(analysis.language_stats[l].lines_acceptance_rate,
                          SumIdx(rows, "total_code_lines_accepted", RowsWith("language", l)),
                          SumIdx(rows, "total_code_lines_suggested", RowsWith("language", l)))
           /\ DOMAIN analysis.language_stats = {rows[i]["language"] : i \in all}
           /\ \A d \in DOMAIN analysis.productivity.daily_stats :
                RateIs(analysis.productivity.daily_stats[d].acceptance_rate,
                       SumIdx(rows, "total_code_acceptances", RowsWith("date", d)),
                       SumIdx(rows, "total_code_suggestions", RowsWith("date", d)))
           /\ DOMAIN analysis.productivity.daily_stats = {rows[i]["date"] : i \in all}
           /\ \A l \in DOMAIN analysis.charts :
                LET IsL(r) == r["language"] = l
                    lang_data == SelectSeq(rows, IsL)
                IN /\ Len(analysis.charts[l]) = Len(lang_data)
                   /\ \A i \in 1..Len(lang_data) :
                        RateIs(analysis.charts[l][i],
                               lang_data[i]["total_code_acceptances"],
                               lang_data[i]["total_code_suggestions"])
           /\ RateIs(analysis.productivity.overall_acceptance_rate,
                     SumIdx(rows, "total_code_acceptances", all),
                     SumIdx(rows, "total_code_suggestions", all))
           /\ RateIs(analysis.productivity.lines_acceptance_rate,
                     SumIdx(rows, "total_code_lines_accepted", all),
                     SumIdx(rows, "total_code_lines_suggested", all))

\* a language with acceptances but no suggestion got the rate 0, and another
\* language of the same analysis a positive quotient
C6_Witness ==
    /\ analysis.status = "ok"
    /\ \E l \in DOMAIN analysis.language_stats :
          /\ analysis.language_stats[l].total_code_suggestions = 0
          /\ analysis.language_stats[l].total_code_acceptances > 0
          /\ analysis.language_stats[l].acceptance_rate = Zero
    /\ \E l \in DOMAIN analysis.language_stats :
          /\ analysis.language_stats[l].total_code_suggestions > 0
          /\ analysis.language_stats[l].acceptance_rate.num > 0

LacksDate == \E i \in 1..Len(data) : "date" \notin DOMAIN data[i]

\* an entry of a completions languages or editors list has no name
FlattenLacksName ==
    \E i \in 1..Len(data) :
        \/ \E k \in 1..Len(DayLanguages(data[i])) : "name" \notin DOMAIN DayLanguages(data[i])[k]
        \/ \E k \in 1..Len(DayEditors(data[i])) : "name" \notin DOMAIN DayEditors(data[i])[k]

\* an editor, or a language under a model of an editor, has no name
ExtractLacksName ==
    \E i \in 1..Len(data) : \E e \in 1..Len(DayEditors(data[i])) :
        \/ "name" \notin DOMAIN DayEditors(data[i])[e]
        \/ \E m \in 1..Len(ModelsOf(DayEditors(data[i])[e])) :
             \E l \in 1..Len(LanguagesOf(ModelsOf(DayEditors(data[i])[e])[m])) :
                "name" \notin DOMAIN LanguagesOf(ModelsOf(DayEditors(data[i])[e])[m])[l]

Aborted(table) == table.status # "ok" /\ table.rows = <<>> /\ table.columns = {}

\* C7 (as claimed): the two transformations fail exactly when a day record has
\* no date, and then return no table.
C7_OnlyMissingDateFails ==
    /\ df.status # "not_run" =>
          IF LacksDate THEN Aborted(df) ELSE df.status = "ok"
    /\ language_df.status # "not_run" =>
          IF LacksDate THEN Aborted(language_df) ELSE language_df.status = "ok"

\* C7 (amended): the two transformations fail exactly when a day record has no
\* date or a listed entry has no name (for flatten_data an entry of the
\* completions languages or editors list, for the extractor an editor or a
\* language of one of its models), and then return no table, not even the rows
\* of the days before; missing sections, lists and counters never fail.
C7_MissingDateOrNameFails ==
    /\ df.status # "not_run" =>
          IF LacksDate \/ FlattenLacksName THEN Aborted(df)
          ELSE df.status = "ok" /\ Len(df.rows) = Len(data)
    /\ language_df.status # "not_run" =>
          IF LacksDate \/ ExtractLacksName THEN Aborted(language_df)
          ELSE language_df.status = "ok"

\* a two-day document whose days all carry a date, whose first day is
\* complete and whose second day lists an entry without a name: both calls
\* end with no table
C7_Witness ==
    /\ Len(data) = 2
    /\ ~LacksDate
    /\ DayLanguages(data[1]) = <<>> /\ DayEditors(data[1]) = <<>>
    /\ Aborted(df) /\ df.status = "KeyError"
    /\ Aborted(language_df) /\ language_df.status = "KeyError"

(***************************************************************************)
(* Properties of the fetch path (checked under Spec).                      *)
(***************************************************************************)
\* the last run issued a GET and the API answered it with this status
Answered(status) ==
    /\ run.event = "click"
    /\ run.tab2.requested
    /\ run.tab2.response.kind = "http"
    /\ run.tab2.response.status = status

\* the fetch reported its error and returned None; main() showed the
\* fetch-failed message and ran nothing on the fetch result
FetchRefused ==
    /\ ErrFetch \in run.tab2.errors
    /\ run.tab2.raw_data = None
    /\ ErrFailed \in run.tab2.errors
    /\ run.tab2.out = NotProcessed
    /\ ~run.tab2.success
    /\ ~run.tab2.download
    /\ run.tab2.exc = ""

\* the status-specific messages are those of 401, 403 and 404 and no other
SpecificMessages(status) ==
    /\ Err401 \in run.tab2.errors <=> status = 401
    /\ Err403 \in run.tab2.errors <=> status = 403
    /\ Err404 \in run.tab2.errors <=> status = 404

\* C8 (as claimed): every answer with a non-2xx status is refused: an error is
\* reported, None returned, nothing run on the fetch result, no download; the
\* status-specific message appears for exactly 401, 403 and 404.
C8_Non2xxRefused ==
    \A status \in HttpStatuses :
        (Answered(status) /\ ~(200 <= status /\ status < 300))
        => FetchRefused /\ SpecificMessages(status)

\* C8 (amended): every answer with a 4xx or 5xx status is refused: an error is
\* reported, None returned, nothing run on the fetch result, no download; the
\* status-specific message appears for exactly 401, 403 and 404 and only the
\* generic error for any other 4xx or 5xx status.
C8_ErrorStatusRefused ==
    \A status \in HttpStatuses :
        (Answered(status) /\ 400 <= status /\ status < 600)
        => FetchRefused /\ SpecificMessages(status)

\* a 404 answer, refused with the generic and the 404 message, whatever the
\* body of the answer holds
C8_Witness ==
    /\ Answered(404)
    /\ run.tab2.response.body.kind = "json"
    /\ run.tab2.response.body.content # <<>>
    /\ run.tab2.errors = {ErrFetch, Err404, ErrFailed}
    /\ FetchRefused

\* C9: a GET that fails before any response exists is reported, the fetch
\* returns None instead of raising, and main() shows its fetch-failed message
\* and runs nothing on the fetch result.
C9_NetworkFailureReturnsNone ==
    (/\ run.event = "click"
     /\ run.tab2.requested
     /\ run.tab2.response.kind = "network_error")
    => FetchRefused

\* C10: a GET is issued only by a click of the fetch button made with a token
\* and start date <= end date, exactly one per such click; a click without a
\* token or with start date > end date reports its error and issues none; no
\* other run (an edit, an upload, the run after a failed request) issues one.
C10_OneGetPerValidClick ==
    [][LET click == run'.event = "click"
           valid == api_token # "" /\ start_date <= end_date
       IN /\ gets' = IF click /\ valid THEN gets + 1 ELSE gets
          /\ run'.tab2.requested <=> (click /\ valid)
          /\ (click /\ api_token = "") => (ErrToken \in run'.tab2.errors)
          /\ (click /\ api_token # "" /\ start_date > end_date)
                => (ErrDates \in run'.tab2.errors)
          /\ gets' = clicks']_vars

\* two clicks made with a token and start <= end have issued two GETs, and the
\* second one was answered 500 and refused
C10_Witness ==
    /\ gets = 2
    /\ clicks = 2
    /\ Answered(500)
    /\ FetchRefused

(***************************************************************************)
(* Failure messages of the two paths of main().                            *)
(***************************************************************************)
\* the uploaded file was parsed: load_data returned the document
Parsed == run.tab1.raw_data.kind = "value"

\* the request was made and fetch_github_copilot_data returned the document
Fetched == run.tab2.requested /\ run.tab2.raw_data.kind = "value"

\* flatten_data was called on the document, and extract_language_acceptance_data
\* after it unless flatten_data raised
PassedOn(out) ==
    /\ out.df.status # "not_run"
    /\ out.df.status = "ok" => out.language_df.status # "not_run"

\* C11: a failure message is shown only when the document could not be parsed
\* or the request failed: every parsed or fetched array, the empty array
\* included, is passed on to flatten_data and extract_language_acceptance_data
\* and no "Failed to ..." message is shown for it.
C11_FailureOnlyWhenUnparsedOrFailed ==
    /\ Parsed => ErrProcess \notin run.tab1.errors /\ PassedOn(run.tab1.out)
    /\ Fetched => ErrFailed \notin run.tab2.errors /\ PassedOn(run.tab2.out)

(***************************************************************************)
(* The date range selection of display_analysis.                           *)
(***************************************************************************)
\* display_analysis was called in the upload tab: both transformations
\* returned, the flattened table has at least one row
Displayed ==
    /\ run.tab1.out.df.status = "ok"
    /\ run.tab1.out.language_df.status = "ok"

\* the rows of the flattened table that the selection keeps
Kept ==
    LET rows == run.tab1.out.df.rows
        InRange(r) == selected_dates.kind = "pair" =>
                         selected_dates.start <= r.date /\ r.date <= selected_dates.end
    IN SelectSeq(rows, InRange)

\* r is a row of rows that holds the largest value of column col
Peak(rows, col, r) ==
    /\ \E i \in 1..Len(rows) : rows[i] = r
    /\ \A i \in 1..Len(rows) : rows[i][col] <= r[col]

\* C12: whenever display_analysis is called on a flattened table with at least
\* one row, for every selection the date range widget allows, it completes
\* without an error, the filtered table holds exactly the rows whose date lies
\* in the selected range (all rows when the selection is not a pair), and the
\* rows of maximum total_active_users and total_engaged_users are computed
\* from the filtered table, also when the range holds no date of the data.
C12_DisplayCompletesForEveryRange ==
    Displayed =>
        LET shown == run.tab1.out.analysis
        IN /\ shown.status = "ok"
           /\ shown.filtered_df = Kept
           /\ Peak(shown.filtered_df, "total_active_users", shown.max_active_day)
           /\ Peak(shown.filtered_df, "total_engaged_users", shown.max_engaged_day)

====
